---- MODULE Spec2Model ----
(***************************************************************************)
(* Delivery pipeline of the email scheduler: the scheduling coordinator    *)
(* (scheduleEmails), the BullMQ queue adapter (email.queue), the worker    *)
(* (processEmailJob), the hourly rate limiter (ratelimit.service) and the  *)
(* cancel endpoint (cancelEmail).                                          *)
(*                                                                         *)
(* Time is kept relative to "now": `tick` is the position inside the       *)
(* current clock hour, a delayed job carries the ticks left until it is    *)
(* due, the Redis counters are those of the current hour key (a new hour   *)
(* key starts at 0), and sentAt is "cur" (inside the current hour) or      *)
(* "old".  One step of a worker is one await of processEmailJob.           *)
(***************************************************************************)
EXTENDS Integers, Sequences, FiniteSets, TLC

\* ---- bounds of the model ------------------------------------------------
MaxRecipients == 3
LiveRecipients == 2
NumWorkers == 2
TicksPerHour == 2
MaxAttempt == 3
MaxStartDelay == 1
MaxCrashes == 1
GlobalLimit == 1
SenderLimit == 2
PlanHour == 3
MaxCount == 4
MaxCap == 3
MaxTextAttempt == 12
MaxSenders == 2
NumClients == 2
MaxCounter == 4
MaxHour == 3
MaxTransporters == 3

\* ---- program constants --------------------------------------------------
\* config.worker.maxRetries (MAX_RETRIES, default 3) and emails.max_retries
MaxRetries == 3
\* the Worker is created without maxStalledCount: BullMQ's default
MaxStalledCount == 1

Msgs == 1..MaxRecipients
Workers == 1..NumWorkers
Attempts == 1..MaxAttempt
JobIds == Msgs \X Attempts
SenderIds == 1..MaxSenders
Clients == 1..NumClients

VARIABLES
  tick,        \* position of the wall clock inside the current hour
  req,         \* the schedule request: number of recipients, start delay
  coord,       \* position of scheduleEmails
  emails,      \* the emails table: message id -> row or NoRow
  batch,       \* the email_batches row of the request
  redis,       \* fast-path counters of the current hour key
  jobs,        \* the BullMQ queue: job id -> job
  limiter,     \* the BullMQ worker limiter window
  workers,     \* each worker slot: position in processEmailJob and locals
  crashesLeft, \* worker deaths still allowed in this run
  okSends,     \* history: Transport sends that returned ok, per message
  incCalls,    \* history: incrementRateLimit calls, per message
  call,        \* a call of a pure function: its arguments and its result
  senders,     \* the senders table: sender id -> row or NoSender
  sreq,        \* each client's sender request in progress
  proc,        \* the worker process: position of shutdown, what is closed
  smtp         \* transporterCache, the transporters made, the sendEmail calls

vars == <<tick, req, coord, emails, batch, redis, jobs, limiter, workers,
          crashesLeft, okSends, incCalls, call, senders, sreq, proc, smtp>>

\* the sender registry and the worker process, which the delivery pipeline
\* leaves alone
side == <<senders, sreq, proc, smtp>>

\* the delivery pipeline, which the sender registry and the shutdown leave alone
pipeline == <<tick, req, coord, emails, batch, redis, jobs, limiter, workers,
              crashesLeft, okSends, incCalls>>

NoRow == [status |-> "NONE"]
NoJob == [st |-> "none", delay |-> 0, made |-> 0, stalled |-> 0]
Idle ==
  [pc |-> "idle", m |-> 0, a |-> 0, tmp |-> 0, err |-> "none", row |-> FALSE,
   gone |-> FALSE, mid |-> FALSE, sent |-> FALSE]
NoCall == [fn |-> "none"]
NoSender == [owner |-> "none"]
Deleted == [owner |-> "deleted"]
\* the sender the user of the pipeline specifications schedules with
FirstSender == [owner |-> "me", email |-> "a@x", isDefault |-> TRUE, isActive |-> TRUE]
NoRequest == [op |-> "none", pc |-> "idle", id |-> 0, email |-> "none", isDefault |-> "undefined", isActive |-> "undefined", existing |-> NoSender, first |-> 0]
TransporterIds == 1..MaxTransporters
NoSend == [pc |-> "idle", t |-> 0]
\* one SMTP configuration, so one cache key; cache is the transporter cached
\* under it (0: none)
NoSmtp == [cache |-> 0, made |-> [t \in TransporterIds |-> "none"], calls |-> [w \in Workers |-> NoSend]]
Running == [pc |-> "run", worker |-> "open", redis |-> "open", store |-> "open", transports |-> "open"]

Exists(m) == emails[m] # NoRow

\* ---- email.queue --------------------------------------------------------
\* generateJobId: `email-<emailId>-attempt-<attemptNumber>`
generateJobId(emailId, attemptNumber) == <<emailId, attemptNumber>>

\* generateJobId without the "-attempt-" separator
generateJobIdNoSeparator(emailId, attemptNumber) ==
  "email-" \o emailId \o ToString(attemptNumber)

\* generateJobId as text: `email-${emailId}-attempt-${attemptNumber}`
generateJobIdText(emailId, attemptNumber) ==
  "email-" \o emailId \o "-attempt-" \o ToString(attemptNumber)

\* Queue.add with a custom jobId, on the list of the ids the queue holds
QueueAddById(ids, id) ==
  IF \E i \in 1..Len(ids) : ids[i] = id THEN ids ELSE Append(ids, id)

\* message ids as text, some of them made of the pieces of a job id
EmailIds == {"a", "1", "11", "a-1", "1-attempt-1", "a-attempt-"}

IdInputs == EmailIds \X (1..MaxTextAttempt)

\* Queue.add / addBulk with a custom jobId: an id the queue already holds
\* (in any state, completed jobs are kept 24 h) is not added again.
QueueAdd(q, id, delay) ==
  IF q[id].st = "none"
    THEN [q EXCEPT ![id] = [st |-> "delayed", delay |-> delay, made |-> 0, stalled |-> 0]]
    ELSE q

\* rescheduleJob that keeps the attempt number of the denied job
SameAttempt(a) == a

\* rescheduleJob: attemptNumber + 1
NextAttempt(a) == a + 1

\* addEmailJob: delay = max(0, scheduledAt - now)
DelayOf(d) == IF d < 0 THEN 0 ELSE d

\* ---- ratelimit.service --------------------------------------------------
Max(a, b) == IF a > b THEN a ELSE b
Min(a, b) == IF a < b THEN a ELSE b

\* getNextHourStart, as ticks from now
NextHourStartDelay == TicksPerHour - tick

\* checkRateLimit(senderId): every message of the batch has a sender
Remaining(r) ==
  Min(Max(0, GlobalLimit - r.global), Max(0, SenderLimit - r.sender))

Allowed(r) == Remaining(r) > 0

\* nextAvailableSlot, as ticks from now
NextAvailableSlot(r) == IF Allowed(r) THEN 0 ELSE NextHourStartDelay

\* Math.max(0, maxGlobal - globalCount) without the clamp at 0
GlobalRemainingUnclamped(globalCount) == GlobalLimit - globalCount

\* Math.max(0, maxGlobal - globalCount)
GlobalRemaining(globalCount) == Max(0, GlobalLimit - globalCount)

\* senderId ? Math.max(0, maxPerSender - senderCount) : maxGlobal
SenderRemaining(senderCount, hasSender) ==
  IF hasSender THEN Max(0, SenderLimit - senderCount) ELSE GlobalLimit

\* checkRateLimit(senderId?) on the counts read from the hour keys; instants
\* are ticks from now
checkRateLimit(globalCount, senderCount, hasSender) ==
  LET remaining == Min(GlobalRemaining(globalCount), SenderRemaining(senderCount, hasSender))
      allowed == remaining > 0
  IN [allowed |-> allowed, remaining |-> remaining, resetTime |-> NextHourStartDelay,
      nextAvailableSlot |-> IF allowed THEN 0 ELSE NextHourStartDelay]

\* incrementRateLimit: INCR of the global key and of the sender key
Incremented(r) == [global |-> r.global + 1, sender |-> r.sender + 1]

\* Instants as ticks since a UTC midnight; off is the offset of the process's
\* time zone from UTC, modulo the hour (0 for UTC, half an hour for +05:30).
\* getRateLimitKey: the hour of the key is getUTCHours()
HourKey(t) == t \div TicksPerHour

\* getCurrentHourStart: new Date(y, m, d, getHours(), 0, 0, 0), in local time
getCurrentHourStart(t, off) == ((t + off) \div TicksPerHour) * TicksPerHour - off

\* getNextHourStart: setHours(getHours() + 1) on getCurrentHourStart
getNextHourStart(t, off) == getCurrentHourStart(t, off) + TicksPerHour

\* redis.get(globalKey) at instant u of a counter written at instant t: the key
\* is the one of the UTC hour of t, and it expires 60 s (less than one tick)
\* after the start of the local hour that follows t
CounterRead(u, t, off, count) ==
  IF HourKey(u) = HourKey(t) /\ u <= getNextHourStart(t, off) THEN count ELSE 0

\* checkRateLimit() at instant u, without a sender
checkRateLimitAt(u, t, off, count) ==
  LET remaining == GlobalRemaining(CounterRead(u, t, off, count))
  IN [allowed |-> remaining > 0, remaining |-> remaining,
      resetTime |-> getNextHourStart(u, off),
      nextAvailableSlot |-> IF remaining > 0 THEN u ELSE getNextHourStart(u, off)]

\* ---- calculateScheduledTimes ---------------------------------------------
\* instants are whole units, PlanHour units to the clock hour
\* a planner that never tests the cap
CapIgnored(emailsInCurrentHour, hourlyLimit) == FALSE

\* new Date(t).setMinutes(0, 0, 0)
HourStart(t) == t - (t % PlanHour)

\* a cap test that lets one more instant into the hour
CapReachedLate(emailsInCurrentHour, hourlyLimit) == emailsInCurrentHour > hourlyLimit

\* emailsInCurrentHour >= hourlyLimit
CapReached(emailsInCurrentHour, hourlyLimit) == emailsInCurrentHour >= hourlyLimit

\* a jump that goes back to the start of the current hour
SameHourStart(currentHourStart) == currentHourStart

\* a jump that skips an hour
SkipHour(currentHourStart) == currentHourStart + 2 * PlanHour

\* currentTime.setHours(currentTime.getHours() + 1) on currentHourStart
JumpTime(currentHourStart) == currentHourStart + PlanHour

\* one round of the for loop per instant still to plan
RECURSIVE PlanLoop(_, _, _, _, _, _, _)
PlanLoop(todo, currentTime, emailsInCurrentHour, currentHourStart, delayBetweenEmails, hourlyLimit, scheduledTimes) ==
  IF todo = 0 THEN scheduledTimes
  ELSE
    LET jump == CapReached(emailsInCurrentHour, hourlyLimit)
        time == IF jump THEN JumpTime(currentHourStart) ELSE currentTime
        hour == IF jump THEN HourStart(time) ELSE currentHourStart
        inHour == (IF jump THEN 0 ELSE emailsInCurrentHour) + 1
        next == time + delayBetweenEmails
        crossed == HourStart(next) > hour
    IN PlanLoop(todo - 1, next, IF crossed THEN 0 ELSE inHour,
                IF crossed THEN HourStart(next) ELSE hour,
                delayBetweenEmails, hourlyLimit, Append(scheduledTimes, time))

calculateScheduledTimes(count, startTime, delayBetweenEmails, hourlyLimit) ==
  PlanLoop(count, startTime, 0, HourStart(startTime), delayBetweenEmails,
           hourlyLimit, <<>>)

\* ---- scheduleEmails -----------------------------------------------------
\* where: { userId, isActive: true }
ActiveMine == {s \in SenderIds : senders[s] \notin {NoSender, Deleted} /\ senders[s].owner = "me" /\ senders[s].isActive}
\* where: { userId, isActive: true, isDefault: true }
DefaultMine == {s \in ActiveMine : senders[s].isDefault}

\* no senderId in the request: findFirst of the default active sender
ResolveDefault ==
  /\ coord = "resolve" /\ req.senderId = 0
  /\ IF DefaultMine # {}
     THEN \E s \in DefaultMine : req' = [req EXCEPT !.use = s] /\ coord' = "start"
     ELSE req' = req /\ coord' = "resolveAny"
  /\ UNCHANGED <<tick, emails, batch, redis, jobs, limiter, workers, crashesLeft, okSends, incCalls, call, side>>

\* no default: findFirst of any active sender, 400 when there is none
ResolveAny ==
  /\ coord = "resolveAny"
  /\ IF ActiveMine # {}
     THEN \E s \in ActiveMine : req' = [req EXCEPT !.use = s] /\ coord' = "start"
     ELSE req' = req /\ coord' = "rejected"
  /\ UNCHANGED <<tick, emails, batch, redis, jobs, limiter, workers, crashesLeft, okSends, incCalls, call, side>>

\* scheduleEmails that validates the given sender without its owner
ValidateSenderAnyOwner ==
  /\ coord = "resolve" /\ req.senderId # 0
  /\ IF senders[req.senderId] \notin {NoSender, Deleted} /\ senders[req.senderId].isActive
     THEN req' = [req EXCEPT !.use = req.senderId] /\ coord' = "start"
     ELSE req' = req /\ coord' = "rejected"
  /\ UNCHANGED <<tick, emails, batch, redis, jobs, limiter, workers, crashesLeft, okSends, incCalls, call, side>>

\* a senderId in the request: findFirst({ id, userId, isActive: true }), 400
\* when it is missing
ValidateSender ==
  /\ coord = "resolve" /\ req.senderId # 0
  /\ IF req.senderId \in ActiveMine
     THEN req' = [req EXCEPT !.use = req.senderId] /\ coord' = "start"
     ELSE req' = req /\ coord' = "rejected"
  /\ UNCHANGED <<tick, emails, batch, redis, jobs, limiter, workers, crashesLeft, okSends, incCalls, call, side>>

NewRow ==
  [status |-> "SCHEDULED", retryCount |-> 0, err |-> "none", sentAt |-> "null",
   msgId |-> FALSE, jobId |-> 0]

CreateBatch ==
  /\ coord = "start"
  /\ batch' = [exists |-> TRUE, total |-> req.n, sent |-> 0, failed |-> 0]
  /\ coord' = "batch"
  /\ UNCHANGED <<tick, req, emails, redis, jobs, limiter, workers, crashesLeft, okSends, incCalls, call, side>>

\* scheduleEmails that enqueues without having created the message rows
CreateMessagesSkipped ==
  /\ coord = "batch"
  /\ coord' = "msgs"
  /\ UNCHANGED <<tick, req, emails, batch, redis, jobs, limiter, workers, crashesLeft, okSends, incCalls, call, side>>

\* Promise.all of prisma.email.create: every row committed
CreateMessages ==
  /\ coord = "batch"
  /\ emails' = [m \in Msgs |-> IF m <= req.n THEN NewRow ELSE NoRow]
  /\ coord' = "msgs"
  /\ UNCHANGED <<tick, req, batch, redis, jobs, limiter, workers, crashesLeft, okSends, incCalls, call, side>>

\* Promise.all of prisma.email.create rejects: one create failed, the others
\* may have committed; the error leaves scheduleEmails through the outer catch
CreateMessagesFails ==
  /\ coord = "batch"
  /\ \E k \in 0..(req.n - 1) :
       emails' = [m \in Msgs |-> IF m <= k THEN NewRow ELSE NoRow]
  /\ coord' = "error"
  /\ UNCHANGED <<tick, req, batch, redis, jobs, limiter, workers, crashesLeft, okSends, incCalls, call, side>>

\* addEmailJobs: one job per message, attemptNumber 1.  The requests of the
\* model have delayBetweenEmails = 0 and hourlyLimit >= recipients, for which
\* calculateScheduledTimes gives every message the start time.
EnqueueJobs ==
  /\ coord = "msgs"
  /\ jobs' = [id \in JobIds |->
                IF id[1] <= req.n /\ id[2] = 1
                  THEN QueueAdd(jobs, generateJobId(id[1], 1), DelayOf(req.delay))[id]
                  ELSE jobs[id]]
  /\ coord' = "enq"
  /\ UNCHANGED <<tick, req, emails, batch, redis, limiter, workers, crashesLeft, okSends, incCalls, call, side>>

\* addBulk rejects (queue backend unavailable): nothing is enqueued
EnqueueThrows ==
  /\ coord = "msgs"
  /\ coord' = "handler"
  /\ UNCHANGED <<tick, req, emails, batch, redis, jobs, limiter, workers, crashesLeft, okSends, incCalls, call, side>>

\* Promise.all of email.update({jobId}): an update of a row that is gone rejects
LinkJobIds ==
  /\ coord = "enq"
  /\ emails' = [m \in Msgs |->
                  IF m <= req.n /\ Exists(m) THEN [emails[m] EXCEPT !.jobId = 1] ELSE emails[m]]
  /\ coord' = IF \A m \in 1..req.n : Exists(m) THEN "done" ELSE "handler"
  /\ UNCHANGED <<tick, req, batch, redis, jobs, limiter, workers, crashesLeft, okSends, incCalls, call, side>>

\* catch (queueError): updateMany({batchId}) -> FAILED
EnqueueFailureHandler ==
  /\ coord = "handler"
  /\ emails' = [m \in Msgs |->
                  IF Exists(m) THEN [emails[m] EXCEPT !.status = "FAILED", !.err = "queue"]
                  ELSE emails[m]]
  /\ coord' = "error"
  /\ UNCHANGED <<tick, req, batch, redis, jobs, limiter, workers, crashesLeft, okSends, incCalls, call, side>>

\* The enqueue of scheduleEmails on the lists it works with: emails is the
\* list of created rows in recipient order, jobs the list the queue was given.
\* a link that gives every message the id of the first job
FirstJobId(jobIds, index) == jobIds[1]

\* data: { jobId: jobIds[index] }
LinkedJobId(jobIds, index) == jobIds[index]

\* emails.map((email, index) => ({data, scheduledAt: scheduledTimes[index], priority: index}))
JobsData(rows, scheduledTimes) ==
  [i \in 1..Len(rows) |->
     [emailId |-> rows[i].id, attemptNumber |-> 1, scheduledAt |-> scheduledTimes[i], priority |-> i - 1]]

\* addEmailJobs: the bulk jobs, with delay = max(0, scheduledAt - Date.now())
BulkJobs(jobsData, now) ==
  [i \in 1..Len(jobsData) |->
     [jobId |-> generateJobId(jobsData[i].emailId, jobsData[i].attemptNumber),
      attempt |-> jobsData[i].attemptNumber,
      delay |-> DelayOf(jobsData[i].scheduledAt - now),
      priority |-> jobsData[i].priority]]

\* addedJobs.map((job) => job.id)
JobIdsOf(bulk) == [i \in 1..Len(bulk) |-> bulk[i].jobId]

\* Promise.all(emails.map((email, index) => update({jobId: jobIds[index]})))
LinkRows(rows, jobIds) ==
  [i \in 1..Len(rows) |-> [rows[i] EXCEPT !.jobId = LinkedJobId(jobIds, i)]]

\* ---- cancelEmail --------------------------------------------------------
CancelEmail(m) ==
  /\ Exists(m)
  /\ emails' = [emails EXCEPT ![m] = NoRow]
  /\ UNCHANGED <<tick, req, coord, batch, redis, jobs, limiter, workers, crashesLeft, okSends, incCalls, call, side>>

\* ---- getEmailById and cancelEmail of two users ------------------------------
\* rows is the emails table with the owner of each row; shadow is the same
\* table in the run in which user U sends no request.
Users == {"U", "V"}
NoAsk == [pc |-> "idle", op |-> "none", id |-> 0]

\* findFirst({ where: { id } }), without the owner
findFirstById(rows, id, userId) == rows[id] # NoRow

\* findFirst({ where: { id, userId } })
findFirstOwned(rows, id, userId) == rows[id] # NoRow /\ rows[id].owner = userId

\* a request of user u for the message id arrives
EmailRequest(u) ==
  /\ call.fn = "own" /\ call.asks[u].pc = "idle"
  /\ \E op \in {"get", "cancel"}, id \in Msgs :
       call' = [call EXCEPT !.asks[u] = [pc |-> "find", op |-> op, id |-> id], !.resp[u] = "none"]
  /\ UNCHANGED <<pipeline, side>>

\* the findFirst of either handler: 404 when it finds nothing; getEmailById
\* answers with the row it found
FindEmail(u) ==
  /\ call.fn = "own" /\ call.asks[u].pc = "find"
  /\ IF ~findFirstOwned(call.rows, call.asks[u].id, u)
       THEN call' = [call EXCEPT !.asks[u] = NoAsk, !.resp[u] = "404"]
       ELSE IF call.asks[u].op = "get"
         THEN call' = [call EXCEPT !.asks[u] = NoAsk, !.resp[u] = "200"]
         ELSE call' = [call EXCEPT !.asks[u].pc = "delete"]
  /\ UNCHANGED <<pipeline, side>>

\* cancelEmail: prisma.email.delete({ where: { id } }), which throws when the
\* row is gone (500)
DeleteEmail(u) ==
  /\ call.fn = "own" /\ call.asks[u].pc = "delete"
  /\ LET id == call.asks[u].id
     IN IF call.rows[id] = NoRow
          THEN call' = [call EXCEPT !.asks[u] = NoAsk, !.resp[u] = "500"]
          ELSE call' = [call EXCEPT
                 !.rows[id] = NoRow,
                 !.shadow[id] = IF u = "U" THEN @ ELSE NoRow,
                 !.asks[u] = NoAsk, !.resp[u] = "200"]
  /\ UNCHANGED <<pipeline, side>>

\* ---- sender.controller -----------------------------------------------------
\* Sender ids are handed out in creation order and never reused, so the order
\* of ids is the order of createdAt.
SenderEmails == {"a@x", "b@x"}
Flags == {"undefined", "true", "false"}

IsRow(s) == senders[s] # NoSender /\ senders[s] # Deleted
\* where: { userId }
Mine == {s \in SenderIds : IsRow(s) /\ senders[s].owner = "me"}
FreeIds == {s \in SenderIds : senders[s] = NoSender}
Least(S) == CHOOSE x \in S : \A y \in S : x <= y
\* a field of an update's data that is undefined is left as it is
Patched(old, flag) == IF flag = "undefined" THEN old ELSE flag = "true"

Respond(c) == [sreq EXCEPT ![c] = NoRequest]
Step(c, pc) == [sreq EXCEPT ![c].pc = pc]

\* a request of the user arrives at one of the three handlers
SenderRequest(c) ==
  /\ sreq[c].op = "none"
  /\ \/ /\ FreeIds # {}
        /\ \E e \in SenderEmails, f \in {"true", "false"} :
             sreq' = [sreq EXCEPT ![c] = [NoRequest EXCEPT !.op = "create", !.pc = "find", !.email = e, !.isDefault = f]]
     \/ \E s \in SenderIds, f \in Flags, g \in Flags :
          /\ senders[s] # NoSender
          /\ sreq' = [sreq EXCEPT ![c] = [NoRequest EXCEPT !.op = "update", !.pc = "find", !.id = s, !.isDefault = f, !.isActive = g]]
     \/ \E s \in SenderIds :
          /\ senders[s] # NoSender
          /\ sreq' = [sreq EXCEPT ![c] = [NoRequest EXCEPT !.op = "delete", !.pc = "find", !.id = s]]
  /\ UNCHANGED <<pipeline, call, senders, proc, smtp>>

\* createSender: findFirst({ userId, email }), 400 when it exists
CreateFind(c) ==
  /\ sreq[c].op = "create" /\ sreq[c].pc = "find"
  /\ sreq' = IF \E s \in Mine : senders[s].email = sreq[c].email THEN Respond(c)
             ELSE Step(c, IF sreq[c].isDefault = "true" THEN "unset" ELSE "write")
  /\ UNCHANGED <<pipeline, call, senders, proc, smtp>>

\* createSender: updateMany({ where: { userId }, data: { isDefault: false } })
CreateUnset(c) ==
  /\ sreq[c].op = "create" /\ sreq[c].pc = "unset"
  /\ senders' = [s \in SenderIds |-> IF s \in Mine THEN [senders[s] EXCEPT !.isDefault = FALSE] ELSE senders[s]]
  /\ sreq' = Step(c, "write")
  /\ UNCHANGED <<pipeline, call, proc, smtp>>

\* createSender: sender.create, 201; the unique index on (user_id, email)
\* makes the create of an email the user already holds throw (500)
CreateWrite(c) ==
  /\ sreq[c].op = "create" /\ sreq[c].pc = "write"
  /\ FreeIds # {}
  /\ senders' = IF \E s \in Mine : senders[s].email = sreq[c].email
                THEN senders
                ELSE [senders EXCEPT ![Least(FreeIds)] =
                       [owner |-> "me", email |-> sreq[c].email, isDefault |-> sreq[c].isDefault = "true", isActive |-> TRUE]]
  /\ sreq' = Respond(c)
  /\ UNCHANGED <<pipeline, call, proc, smtp>>

\* updateSender: findFirst({ id, userId }), 404 when missing
UpdateFind(c) ==
  /\ sreq[c].op = "update" /\ sreq[c].pc = "find"
  /\ sreq' = IF sreq[c].id \notin Mine THEN Respond(c)
             ELSE Step(c, IF sreq[c].isDefault = "true" THEN "unset" ELSE "write")
  /\ UNCHANGED <<pipeline, call, senders, proc, smtp>>

\* updateSender: updateMany({ where: { userId, id: { not: id } }, data: { isDefault: false } })
UpdateUnset(c) ==
  /\ sreq[c].op = "update" /\ sreq[c].pc = "unset"
  /\ senders' = [s \in SenderIds |-> IF s \in Mine /\ s # sreq[c].id THEN [senders[s] EXCEPT !.isDefault = FALSE] ELSE senders[s]]
  /\ sreq' = Step(c, "write")
  /\ UNCHANGED <<pipeline, call, proc, smtp>>

\* updateSender: sender.update({ where: { id } }), which throws when the row
\* is gone (500)
UpdateWrite(c) ==
  /\ sreq[c].op = "update" /\ sreq[c].pc = "write"
  /\ senders' = IF IsRow(sreq[c].id)
                THEN [senders EXCEPT ![sreq[c].id].isDefault = Patched(@, sreq[c].isDefault),
                                     ![sreq[c].id].isActive = Patched(@, sreq[c].isActive)]
                ELSE senders
  /\ sreq' = Respond(c)
  /\ UNCHANGED <<pipeline, call, proc, smtp>>

\* deleteSender: findFirst({ id, userId }), 404 when missing
DeleteFind(c) ==
  /\ sreq[c].op = "delete" /\ sreq[c].pc = "find"
  /\ sreq' = IF sreq[c].id \notin Mine THEN Respond(c)
             ELSE [sreq EXCEPT ![c].pc = "count", ![c].existing = senders[sreq[c].id]]
  /\ UNCHANGED <<pipeline, call, senders, proc, smtp>>

\* deleteSender: sender.count({ userId }), 400 when it is 1
DeleteCount(c) ==
  /\ sreq[c].op = "delete" /\ sreq[c].pc = "count"
  /\ sreq' = IF Cardinality(Mine) = 1 THEN Respond(c) ELSE Step(c, "delete")
  /\ UNCHANGED <<pipeline, call, senders, proc, smtp>>

\* deleteSender: sender.delete({ where: { id } }), which throws when the row
\* is gone (500)
DeleteRow(c) ==
  /\ sreq[c].op = "delete" /\ sreq[c].pc = "delete"
  /\ IF IsRow(sreq[c].id)
     THEN /\ senders' = [senders EXCEPT ![sreq[c].id] = Deleted]
          /\ sreq' = IF sreq[c].existing.isDefault THEN Step(c, "first") ELSE Respond(c)
     ELSE /\ senders' = senders
          /\ sreq' = Respond(c)
  /\ UNCHANGED <<pipeline, call, proc, smtp>>

\* deleteSender: findFirst({ userId }, orderBy createdAt asc)
DeleteFirst(c) ==
  /\ sreq[c].op = "delete" /\ sreq[c].pc = "first"
  /\ sreq' = IF Mine = {} THEN Respond(c)
             ELSE [sreq EXCEPT ![c].pc = "promote", ![c].first = Least(Mine)]
  /\ UNCHANGED <<pipeline, call, senders, proc, smtp>>

\* deleteSender: update({ where: { id: firstSender.id }, data: { isDefault: true } })
DeletePromote(c) ==
  /\ sreq[c].op = "delete" /\ sreq[c].pc = "promote"
  /\ senders' = IF IsRow(sreq[c].first)
                THEN [senders EXCEPT ![sreq[c].first].isDefault = TRUE]
                ELSE senders
  /\ sreq' = Respond(c)
  /\ UNCHANGED <<pipeline, call, proc, smtp>>

\* ---- the clock ----------------------------------------------------------
Dec(n) == IF n > 0 THEN n - 1 ELSE 0

Tick ==
  /\ tick' = (tick + 1) % TicksPerHour
  /\ jobs' = [id \in JobIds |-> [jobs[id] EXCEPT !.delay = Dec(@)]]
  /\ limiter' = [limiter EXCEPT !.ttl = Dec(@)]
  /\ IF tick' = 0
       THEN /\ redis' = [global |-> 0, sender |-> 0]
            /\ emails' = [m \in Msgs |->
                 IF Exists(m) /\ emails[m].sentAt = "cur"
                   THEN [emails[m] EXCEPT !.sentAt = "old"] ELSE emails[m]]
       ELSE UNCHANGED <<redis, emails>>
  /\ workers' = [w \in Workers |->
                   IF workers[w].pc = "resched"
                     THEN [workers[w] EXCEPT !.tmp = Max(@ - 1, -1)] ELSE workers[w]]
  /\ UNCHANGED <<req, coord, batch, crashesLeft, okSends, incCalls, call, side>>

\* ---- the queue as seen by the worker -------------------------------------
\* the Worker's limiter {max: maxEmailsPerHour, duration: 1 h}: a window opens
\* with the first job taken after the previous one expired
LimiterOpen == limiter.ttl = 0 \/ limiter.count < GlobalLimit

LimiterTake ==
  IF limiter.ttl = 0 THEN [count |-> 1, ttl |-> TicksPerHour]
  ELSE [limiter EXCEPT !.count = @ + 1]

\* the processor returned: the job is completed
JobCompleted(q, id) == [q EXCEPT ![id].st = "completed"]

\* the processor threw: retried (attempts = maxRetries, exponential backoff of
\* seconds, below one tick) until the attempts are used up, then failed
JobThrew(q, id) ==
  IF q[id].made + 1 >= MaxRetries
    THEN [q EXCEPT ![id].st = "failed", ![id].made = @ + 1]
    ELSE [q EXCEPT ![id].st = "delayed", ![id].delay = 0, ![id].made = @ + 1]

\* the lease of an active job expired: back to waiting, or failed when it
\* stalled more than maxStalledCount times
JobStalled(q, id) ==
  IF q[id].stalled >= MaxStalledCount
    THEN [q EXCEPT ![id].st = "failed"]
    ELSE [q EXCEPT ![id].st = "delayed", ![id].delay = 0, ![id].stalled = @ + 1]

Goto(w, pc) == [workers EXCEPT ![w].pc = pc]

Throw(w, e) == [workers EXCEPT ![w].pc = "catch", ![w].err = e, ![w].mid = FALSE]

Release(w) == [workers EXCEPT ![w] = Idle]

JobOf(w) == <<workers[w].m, workers[w].a>>

\* a due job is handed to a free worker slot (the slots are alike: the lowest)
Pickup(w, id) ==
  /\ workers[w].pc = "idle"
  /\ \A v \in Workers : v < w => workers[v].pc # "idle"
  /\ proc.worker = "open"
  /\ jobs[id].st = "delayed"
  /\ jobs[id].delay = 0
  /\ LimiterOpen
  /\ jobs' = [jobs EXCEPT ![id].st = "active"]
  /\ limiter' = LimiterTake
  /\ workers' = [workers EXCEPT ![w] =
                   [Idle EXCEPT !.pc = "start", !.m = id[1], !.a = id[2],
                                !.gone = ~Exists(id[1])]]
  /\ UNCHANGED <<tick, req, coord, emails, batch, redis, crashesLeft, okSends, incCalls, call, side>>

\* ---- processEmailJob -----------------------------------------------------
\* StartJob with an update that does not reject when the row is gone
StartJobNoReject(w) ==
  /\ workers[w].pc = "start"
  /\ emails' = IF Exists(workers[w].m)
                 THEN [emails EXCEPT ![workers[w].m].status = "PROCESSING",
                                     ![workers[w].m].jobId = workers[w].a]
                 ELSE emails
  /\ workers' = Goto(w, "check")
  /\ UNCHANGED <<tick, req, coord, batch, redis, jobs, limiter, crashesLeft, okSends, incCalls, call, side>>

\* email.update({status: PROCESSING, jobId}); rejects when the row is gone
StartJob(w) ==
  /\ workers[w].pc = "start"
  /\ IF Exists(workers[w].m)
       THEN /\ emails' = [emails EXCEPT ![workers[w].m].status = "PROCESSING",
                                         ![workers[w].m].jobId = workers[w].a]
            /\ workers' = Goto(w, "check")
       ELSE /\ workers' = Throw(w, "notfound")
            /\ UNCHANGED emails
  /\ UNCHANGED <<tick, req, coord, batch, redis, jobs, limiter, crashesLeft, okSends, incCalls, call, side>>

\* processEmailJob that increments the rate counters before it sends
CheckRateThenIncrement(w) ==
  /\ workers[w].pc = "check"
  /\ workers' = Goto(w, IF Allowed(redis) THEN "incr" ELSE "markRL")
  /\ UNCHANGED <<tick, req, coord, emails, batch, redis, jobs, limiter, crashesLeft, okSends, incCalls, call, side>>

\* checkRateLimit(senderId)
CheckRate(w) ==
  /\ workers[w].pc = "check"
  /\ workers' = Goto(w, IF Allowed(redis) THEN "send" ELSE "markRL")
  /\ UNCHANGED <<tick, req, coord, emails, batch, redis, jobs, limiter, crashesLeft, okSends, incCalls, call, side>>

\* a denial that is counted as a retry of the message
MarkRateLimitedCounted(w) ==
  /\ workers[w].pc = "markRL"
  /\ IF Exists(workers[w].m)
       THEN /\ emails' = [emails EXCEPT ![workers[w].m].status = "RATE_LIMITED",
                                        ![workers[w].m].retryCount = @ + 1]
            /\ workers' = Goto(w, "nextSlot")
       ELSE /\ workers' = Throw(w, "notfound")
            /\ UNCHANGED emails
  /\ UNCHANGED <<tick, req, coord, batch, redis, jobs, limiter, crashesLeft, okSends, incCalls, call, side>>

\* email.update({status: RATE_LIMITED})
MarkRateLimited(w) ==
  /\ workers[w].pc = "markRL"
  /\ IF Exists(workers[w].m)
       THEN /\ emails' = [emails EXCEPT ![workers[w].m].status = "RATE_LIMITED"]
            /\ workers' = Goto(w, "nextSlot")
       ELSE /\ workers' = Throw(w, "notfound")
            /\ UNCHANGED emails
  /\ UNCHANGED <<tick, req, coord, batch, redis, jobs, limiter, crashesLeft, okSends, incCalls, call, side>>

\* getNextAvailableSlot(senderId): a second checkRateLimit
GetNextSlot(w) ==
  /\ workers[w].pc = "nextSlot"
  /\ workers' = [workers EXCEPT ![w].pc = "resched", ![w].tmp = NextAvailableSlot(redis)]
  /\ UNCHANGED <<tick, req, coord, emails, batch, redis, jobs, limiter, crashesLeft, okSends, incCalls, call, side>>

\* rescheduleJob(job.data, nextSlot), then return {success: false}
Reschedule(w) ==
  /\ workers[w].pc = "resched"
  /\ NextAttempt(workers[w].a) \in Attempts
  /\ jobs' = QueueAdd(jobs, generateJobId(workers[w].m, NextAttempt(workers[w].a)),
                      DelayOf(workers[w].tmp))
  /\ workers' = Goto(w, "done")
  /\ UNCHANGED <<tick, req, coord, emails, batch, redis, limiter, crashesLeft, okSends, incCalls, call, side>>

\* rescheduleJob rejects (queue backend unavailable)
RescheduleThrows(w) ==
  /\ workers[w].pc = "resched"
  /\ workers' = Throw(w, "enqueue")
  /\ UNCHANGED <<tick, req, coord, emails, batch, redis, jobs, limiter, crashesLeft, okSends, incCalls, call, side>>

\* sendEmail returns {success: true, messageId: info.messageId}
SendOk(w) ==
  /\ workers[w].pc = "send"
  /\ okSends' = [okSends EXCEPT ![workers[w].m] = @ + 1]
  /\ workers' = [workers EXCEPT ![w].pc = "incr", ![w].mid = TRUE, ![w].sent = TRUE]
  /\ UNCHANGED <<tick, req, coord, emails, batch, redis, jobs, limiter, crashesLeft, incCalls, call, side>>

\* sendEmail returns {success: true} and sendMail's info carries no messageId
SendOkNoId(w) ==
  /\ workers[w].pc = "send"
  /\ okSends' = [okSends EXCEPT ![workers[w].m] = @ + 1]
  /\ workers' = [workers EXCEPT ![w].pc = "incr", ![w].mid = FALSE, ![w].sent = TRUE]
  /\ UNCHANGED <<tick, req, coord, emails, batch, redis, jobs, limiter, crashesLeft, incCalls, call, side>>

\* sendEmail returns {success: false}: throw new Error(result.error)
SendFails(w) ==
  /\ workers[w].pc = "send"
  /\ workers' = Throw(w, "transport")
  /\ UNCHANGED <<tick, req, coord, emails, batch, redis, jobs, limiter, crashesLeft, okSends, incCalls, call, side>>

\* incrementRateLimit(senderId)
IncrementRate(w) ==
  /\ workers[w].pc = "incr"
  /\ redis' = Incremented(redis)
  /\ incCalls' = [incCalls EXCEPT ![workers[w].m] = @ + 1]
  /\ workers' = Goto(w, "markSent")
  /\ UNCHANGED <<tick, req, coord, emails, batch, jobs, limiter, crashesLeft, okSends, call, side>>

\* incrementRateLimit whose durable upsert (updateDBRateLimit) rejects after
\* the Redis counters were incremented
IncrementRateThrows(w) ==
  /\ workers[w].pc = "incr"
  /\ redis' = Incremented(redis)
  /\ incCalls' = [incCalls EXCEPT ![workers[w].m] = @ + 1]
  /\ workers' = Throw(w, "store")
  /\ UNCHANGED <<tick, req, coord, emails, batch, jobs, limiter, crashesLeft, okSends, call, side>>

\* email.update({status: SENT, sentAt, messageId, previewUrl})
MarkSent(w) ==
  /\ workers[w].pc = "markSent"
  /\ IF Exists(workers[w].m)
       THEN /\ emails' = [emails EXCEPT ![workers[w].m].status = "SENT",
                                         ![workers[w].m].sentAt = "cur",
                                         ![workers[w].m].msgId = workers[w].mid]
            /\ workers' = Goto(w, "batchInc")
       ELSE /\ workers' = Throw(w, "notfound")
            /\ UNCHANGED emails
  /\ UNCHANGED <<tick, req, coord, batch, redis, jobs, limiter, crashesLeft, okSends, incCalls, call, side>>

\* email.findUnique({batchId}); emailBatch.update(sentEmails + 1); return
BatchSent(w) ==
  /\ workers[w].pc = "batchInc"
  /\ batch' = IF Exists(workers[w].m) THEN [batch EXCEPT !.sent = @ + 1] ELSE batch
  /\ workers' = Goto(w, "done")
  /\ UNCHANGED <<tick, req, coord, emails, redis, jobs, limiter, crashesLeft, okSends, incCalls, call, side>>

\* catch: email.findUnique; retryCount = (email?.retryCount || 0) + 1
CatchRead(w) ==
  /\ workers[w].pc = "catch"
  /\ workers' = [workers EXCEPT
       ![w].pc = "catchUpd",
       ![w].row = Exists(workers[w].m),
       ![w].tmp = (IF Exists(workers[w].m) THEN emails[workers[w].m].retryCount ELSE 0) + 1]
  /\ UNCHANGED <<tick, req, coord, emails, batch, redis, jobs, limiter, crashesLeft, okSends, incCalls, call, side>>

\* catch: email.update to FAILED or back to SCHEDULED; the update of a row
\* that is gone rejects inside the catch block, so processEmailJob rejects
CatchUpdate(w) ==
  /\ workers[w].pc = "catchUpd"
  /\ IF ~Exists(workers[w].m)
       THEN /\ workers' = Goto(w, "threw")
            /\ UNCHANGED emails
       ELSE IF workers[w].tmp >= MaxRetries
         THEN /\ emails' = [emails EXCEPT ![workers[w].m].status = "FAILED",
                                           ![workers[w].m].err = workers[w].err,
                                           ![workers[w].m].retryCount = workers[w].tmp]
              /\ workers' = Goto(w, "catchBatch")
         ELSE /\ emails' = [emails EXCEPT ![workers[w].m].status = "SCHEDULED",
                                           ![workers[w].m].err = workers[w].err,
                                           ![workers[w].m].retryCount = workers[w].tmp]
              /\ workers' = Goto(w, "done")
  /\ UNCHANGED <<tick, req, coord, batch, redis, jobs, limiter, crashesLeft, okSends, incCalls, call, side>>

\* catch: emailBatch.update(failedEmails + 1) if (email?.batchId); return
CatchBatch(w) ==
  /\ workers[w].pc = "catchBatch"
  /\ batch' = IF workers[w].row THEN [batch EXCEPT !.failed = @ + 1] ELSE batch
  /\ workers' = Goto(w, "done")
  /\ UNCHANGED <<tick, req, coord, emails, redis, jobs, limiter, crashesLeft, okSends, incCalls, call, side>>

\* processEmailJob returned a result: the Worker marks the job completed
JobReturns(w) ==
  /\ workers[w].pc = "done"
  /\ jobs' = JobCompleted(jobs, JobOf(w))
  /\ workers' = Release(w)
  /\ UNCHANGED <<tick, req, coord, emails, batch, redis, limiter, crashesLeft, okSends, incCalls, call, side>>

\* processEmailJob rejected: the Worker marks the attempt failed
JobRejects(w) ==
  /\ workers[w].pc = "threw"
  /\ jobs' = JobThrew(jobs, JobOf(w))
  /\ workers' = Release(w)
  /\ UNCHANGED <<tick, req, coord, emails, batch, redis, limiter, crashesLeft, okSends, incCalls, call, side>>

\* the worker process dies while a job is active: the job's lease expires
Crash(w) ==
  /\ workers[w].pc # "idle"
  /\ crashesLeft > 0
  /\ crashesLeft' = crashesLeft - 1
  /\ jobs' = JobStalled(jobs, JobOf(w))
  /\ workers' = Release(w)
  /\ UNCHANGED <<tick, req, coord, emails, batch, redis, limiter, okSends, incCalls, call, side>>

\* ---- email.service -----------------------------------------------------------
\* sendEmail calls of one process with the same SMTP configuration
NewTransporter == CHOOSE t \in TransporterIds : smtp.made[t] = "none" /\ \A u \in TransporterIds : smtp.made[u] = "none" => t <= u

\* getTransporter up to its await: the cached transporter, or on a miss
\* createTransport({pool: true}) and the start of transporter.verify()
GetTransporter(w) ==
  /\ smtp.calls[w].pc = "idle"
  /\ IF smtp.cache # 0
       THEN smtp' = [smtp EXCEPT !.calls[w] = [pc |-> "send", t |-> smtp.cache]]
       ELSE /\ \E t \in TransporterIds : smtp.made[t] = "none"
            /\ smtp' = [smtp EXCEPT !.made[NewTransporter] = "unverified",
                                     !.calls[w] = [pc |-> "verify", t |-> NewTransporter]]
  /\ UNCHANGED <<pipeline, call, senders, sreq, proc>>

\* verify() resolves: transporterCache.set(cacheKey, transporter)
VerifyOk(w) ==
  /\ smtp.calls[w].pc = "verify"
  /\ smtp' = [smtp EXCEPT !.made[smtp.calls[w].t] = "open",
                           !.cache = smtp.calls[w].t,
                           !.calls[w].pc = "send"]
  /\ UNCHANGED <<pipeline, call, senders, sreq, proc>>

\* verify() rejects: the error is rethrown, nothing is cached, and sendEmail
\* returns {success: false}
VerifyFails(w) ==
  /\ smtp.calls[w].pc = "verify"
  /\ smtp' = [smtp EXCEPT !.made[smtp.calls[w].t] = "failed", !.calls[w] = NoSend]
  /\ UNCHANGED <<pipeline, call, senders, sreq, proc>>

\* transporter.sendMail(mailOptions), then sendEmail returns
SendMail(w) ==
  /\ smtp.calls[w].pc = "send"
  /\ smtp' = [smtp EXCEPT !.calls[w] = NoSend]
  /\ UNCHANGED <<pipeline, call, senders, sreq, proc>>

\* closeTransporters: close() and delete every entry of the cache
closeTransporters ==
  /\ smtp' = [smtp EXCEPT !.cache = 0,
                           !.made = [t \in TransporterIds |-> IF t = smtp.cache THEN "closed" ELSE smtp.made[t]]]
  /\ UNCHANGED <<pipeline, call, senders, sreq, proc>>

\* ---- the worker process ----------------------------------------------------
\* getTransporter caches a pooled transporter from the first verified send on;
\* the cache is emptied by closeTransporters only.
TransportsOpen == proc.transports = "open" /\ \E m \in Msgs : okSends[m] > 0

\* SIGTERM or SIGINT: shutdown starts and worker.close() stops the dequeues
ShutdownSignal ==
  /\ proc.pc = "run"
  /\ proc' = [proc EXCEPT !.pc = "closing", !.worker = "closing"]
  /\ UNCHANGED <<pipeline, call, senders, sreq, smtp>>

\* await worker.close() returns when no job is in flight
WorkerClosed ==
  /\ proc.pc = "closing"
  /\ \A w \in Workers : workers[w].pc = "idle"
  /\ proc' = [proc EXCEPT !.pc = "redis", !.worker = "closed"]
  /\ UNCHANGED <<pipeline, call, senders, sreq, smtp>>

\* await closeRedisConnections()
CloseRedis ==
  /\ proc.pc = "redis"
  /\ proc' = [proc EXCEPT !.pc = "store", !.redis = "closed"]
  /\ UNCHANGED <<pipeline, call, senders, sreq, smtp>>

\* await prisma.$disconnect(), then process.exit(0)
Disconnect ==
  /\ proc.pc = "store"
  /\ proc' = [proc EXCEPT !.pc = "exit", !.store = "closed"]
  /\ UNCHANGED <<pipeline, call, senders, sreq, smtp>>

\* ---- specifications ------------------------------------------------------
InitStores(ns, crashes) ==
  /\ tick \in 0..(TicksPerHour - 1)
  /\ req \in [n : ns, delay : 0..MaxStartDelay, senderId : {0}, use : {1}]
  /\ coord = "start"
  /\ emails = [m \in Msgs |-> NoRow]
  /\ batch = [exists |-> FALSE, total |-> 0, sent |-> 0, failed |-> 0]
  /\ redis = [global |-> 0, sender |-> 0]
  /\ jobs = [id \in JobIds |-> NoJob]
  /\ limiter = [count |-> 0, ttl |-> 0]
  /\ workers = [w \in Workers |-> Idle]
  /\ crashesLeft = crashes
  /\ okSends = [m \in Msgs |-> 0]
  /\ incCalls = [m \in Msgs |-> 0]

\* no sender request in progress, the worker process running
InitSide ==
  /\ senders = [s \in SenderIds |-> IF s = 1 THEN FirstSender ELSE NoSender]
  /\ sreq = [c \in Clients |-> NoRequest]
  /\ proc = Running
  /\ smtp = NoSmtp

InitWith(ns, crashes) == InitStores(ns, crashes) /\ call = NoCall /\ InitSide

\* the request succeeds
Schedule == CreateBatch \/ CreateMessages \/ EnqueueJobs \/ LinkJobIds

\* processEmailJob when nothing rejects and the transport succeeds
WorkerOk(w) ==
  \/ \E id \in JobIds : Pickup(w, id)
  \/ StartJob(w) \/ CheckRate(w) \/ MarkRateLimited(w) \/ GetNextSlot(w)
  \/ Reschedule(w) \/ SendOk(w) \/ IncrementRate(w) \/ MarkSent(w) \/ BatchSent(w)
  \/ JobReturns(w)

\* the catch block of processEmailJob, below maxRetries
WorkerCatch(w) == CatchRead(w) \/ CatchUpdate(w)

\* no faults: the transport succeeds, no worker dies, nobody cancels
InitNoFault == InitWith(1..MaxRecipients, 0)

NextNoFault == Schedule \/ Tick \/ \E w \in Workers : WorkerOk(w)

SpecNoFault == InitNoFault /\ [][NextNoFault]_vars

\* no faults, all messages due at once, and the clock, the request and every
\* worker keep running
InitLive == InitNoFault /\ req.n = LiveRecipients /\ req.delay = 0

SpecLive ==
  /\ InitLive /\ [][NextNoFault]_vars
  /\ WF_vars(Schedule) /\ WF_vars(Tick)
  /\ \A w \in Workers : WF_vars(WorkerOk(w))

\* worker deaths
InitCrash == InitWith(1..2, MaxCrashes)

NextCrash == Schedule \/ Tick \/ \E w \in Workers : WorkerOk(w) \/ Crash(w)

SpecCrash == InitCrash /\ [][NextCrash]_vars

\* a crash of the worker process and transport failures
NextCrashFail ==
  \/ NextCrash
  \/ \E w \in Workers : SendFails(w) \/ WorkerCatch(w)

InitCrashFail == InitCrash /\ req.n = 2 /\ req.delay = 0

SpecCrashFail == InitCrashFail /\ [][NextCrashFail]_vars

\* transport failures
InitFail == InitWith(1..2, 0)

NextFail ==
  Schedule \/ Tick \/ \E w \in Workers : WorkerOk(w) \/ SendFails(w) \/ WorkerCatch(w)

SpecFail == InitFail /\ [][NextFail]_vars

\* cancellations and a failing enqueue
InitCancel == InitWith(1..2, 0)

NextCancel ==
  \/ Schedule \/ EnqueueThrows \/ EnqueueFailureHandler \/ Tick
  \/ \E m \in Msgs : CancelEmail(m)
  \/ \E w \in Workers : WorkerOk(w) \/ WorkerCatch(w) \/ JobRejects(w)

SpecCancel == InitCancel /\ [][NextCancel]_vars

\* a transport that fails every send, with the clock, the request and every
\* worker kept running
WorkerFail(w) ==
  \/ \E id \in JobIds : Pickup(w, id)
  \/ StartJob(w) \/ CheckRate(w) \/ SendFails(w)
  \/ CatchRead(w) \/ CatchUpdate(w) \/ JobReturns(w)

InitExhaust == InitWith(1..2, 0)

NextExhaust == Schedule \/ Tick \/ \E w \in Workers : WorkerFail(w)

SpecExhaust ==
  /\ InitExhaust /\ [][NextExhaust]_vars
  /\ WF_vars(Schedule) /\ WF_vars(Tick)
  /\ \A w \in Workers : WF_vars(WorkerFail(w))

\* the failures of scheduleEmails: a message create or the bulk enqueue rejects
InitPersist == InitWith(1..2, 0)

NextPersist ==
  \/ Schedule \/ CreateMessagesFails \/ EnqueueThrows \/ EnqueueFailureHandler
  \/ Tick
  \/ \E w \in Workers : WorkerOk(w)

SpecPersist == InitPersist /\ [][NextPersist]_vars

\* a transport that may report success without a message id
InitNoId == InitWith(1..2, 0)

NextNoId == Schedule \/ Tick \/ \E w \in Workers : WorkerOk(w) \/ SendOkNoId(w)

SpecNoId == InitNoId /\ [][NextNoId]_vars

\* a call of calculateScheduledTimes on every input of the bounds
InitPlanner ==
  /\ InitStores({1}, 0) /\ tick = 0 /\ req.delay = 0 /\ InitSide
  /\ call \in [fn : {"plan"}, count : 0..MaxCount, start : 0..(2 * PlanHour - 1),
               spacing : 0..PlanHour, cap : 1..MaxCap, out : {<<>>}, done : {FALSE}]

Plan ==
  /\ call.fn = "plan" /\ ~call.done
  /\ call' = [call EXCEPT
       !.out = calculateScheduledTimes(call.count, call.start, call.spacing, call.cap),
       !.done = TRUE]
  /\ UNCHANGED <<pipeline, side>>

SpecPlanner == InitPlanner /\ [][Plan]_vars

\* a call of checkRateLimit on every pair of counts of the bounds, with and
\* without a sender
InitCheck ==
  /\ InitStores({1}, 0) /\ req.delay = 0 /\ InitSide
  /\ call \in [fn : {"check"}, globalCount : 0..MaxCounter, senderCount : 0..MaxCounter,
               hasSender : BOOLEAN, out : {NoCall}, done : {FALSE}]

Check ==
  /\ call.fn = "check" /\ ~call.done
  /\ call' = [call EXCEPT
       !.out = checkRateLimit(call.globalCount, call.senderCount, call.hasSender),
       !.done = TRUE]
  /\ UNCHANGED <<pipeline, side>>

SpecCheck == InitCheck /\ [][Check]_vars

\* a checkRateLimit at instant t, on a counter incremented at t, and when it
\* denies a second one at the nextAvailableSlot it returned
InitReset ==
  /\ InitStores({1}, 0) /\ req.delay = 0 /\ InitSide
  /\ call \in [fn : {"reset"}, t : 0..(MaxHour * TicksPerHour - 1), off : 0..(TicksPerHour - 1),
               count : 0..MaxCounter, out : {NoCall}, again : {NoCall}, step : {0}]

CheckAt ==
  /\ call.fn = "reset" /\ call.step = 0
  /\ call' = [call EXCEPT !.out = checkRateLimitAt(call.t, call.t, call.off, call.count), !.step = 1]
  /\ UNCHANGED <<pipeline, side>>

CheckAtSlot ==
  /\ call.fn = "reset" /\ call.step = 1 /\ ~call.out.allowed
  /\ call' = [call EXCEPT
       !.again = checkRateLimitAt(call.out.nextAvailableSlot, call.t, call.off, call.count),
       !.step = 2]
  /\ UNCHANGED <<pipeline, side>>

SpecReset == InitReset /\ [][CheckAt \/ CheckAtSlot]_vars

\* scheduleEmails from the created rows to the linked job ids: the rows have
\* distinct ids in any order, the plan is the planner's, and the enqueue
\* happens at or after the requested start
RowIds == {ids \in [1..MaxRecipients -> 1..MaxRecipients] : \A i, j \in 1..MaxRecipients : i # j => ids[i] # ids[j]}

InitLink ==
  /\ InitStores({1}, 0) /\ tick = 0 /\ req.delay = 0 /\ InitSide
  /\ \E n \in 1..MaxRecipients, ids \in RowIds, start \in 0..(PlanHour - 1), spacing \in 0..1, cap \in 1..2, now \in 0..PlanHour :
       call = [fn |-> "link", now |-> now,
               times |-> calculateScheduledTimes(n, start, spacing, cap),
               rows |-> [i \in 1..n |-> [id |-> ids[i], batchIndex |-> i - 1, jobId |-> <<0, 0>>]],
               queue |-> <<>>, jobIds |-> <<>>, step |-> 0]

AddBulk ==
  /\ call.fn = "link" /\ call.step = 0
  /\ LET bulk == BulkJobs(JobsData(call.rows, call.times), call.now)
     IN call' = [call EXCEPT !.queue = bulk, !.jobIds = JobIdsOf(bulk), !.step = 1]
  /\ UNCHANGED <<pipeline, side>>

Link ==
  /\ call.fn = "link" /\ call.step = 1
  /\ call' = [call EXCEPT !.rows = LinkRows(call.rows, call.jobIds), !.step = 2]
  /\ UNCHANGED <<pipeline, side>>

SpecLink == InitLink /\ [][AddBulk \/ Link]_vars

\* concurrent sendEmail calls of one process, and closeTransporters
NextTransport ==
  \/ \E w \in Workers : GetTransporter(w) \/ VerifyOk(w) \/ VerifyFails(w) \/ SendMail(w)
  \/ closeTransporters

SpecTransport == InitWith({1}, 0) /\ [][NextTransport]_vars

\* requests of two users on every table of owned messages
OwnedRows == [owner : Users, status : {"SCHEDULED", "SENT"}]

InitOwn ==
  /\ InitStores({1}, 0) /\ tick = 0 /\ req.delay = 0 /\ InitSide
  /\ \E rows \in [Msgs -> OwnedRows \cup {NoRow}] :
       call = [fn |-> "own", rows |-> rows, shadow |-> rows,
               asks |-> [u \in Users |-> NoAsk], resp |-> [u \in Users |-> "none"]]

NextOwn == \E u \in Users : EmailRequest(u) \/ FindEmail(u) \/ DeleteEmail(u)

SpecOwn == InitOwn /\ [][NextOwn]_vars

\* two (messageId, attempt) pairs enqueued, the first one a second time
InitEnqueue ==
  /\ InitStores({1}, 0) /\ tick = 0 /\ req.delay = 0 /\ InitSide
  /\ call \in [fn : {"enqueue"}, p : IdInputs, q : IdInputs, ids : {<<>>}, step : {0}]

\* addEmailJob of p (step 0), of q (step 1), and of p again (step 2), as
\* rescheduleJob does when a redelivered job reschedules once more
Enqueue ==
  /\ call.fn = "enqueue" /\ call.step < 3
  /\ LET arg == IF call.step = 1 THEN call.q ELSE call.p
     IN call' = [call EXCEPT
          !.ids = QueueAddById(call.ids, generateJobIdText(arg[1], arg[2])),
          !.step = @ + 1]
  /\ UNCHANGED <<pipeline, side>>

SpecEnqueue == InitEnqueue /\ [][Enqueue]_vars

\* the faults of the queue, the worker and cancellation at once, for one
\* recipient
\* the worker process is told to stop at any moment of a fault-free run
InitShutdown == InitWith(1..2, 0)

NextShutdown ==
  \/ NextNoFault
  \/ ShutdownSignal \/ WorkerClosed \/ CloseRedis \/ Disconnect

SpecShutdown == InitShutdown /\ [][NextShutdown]_vars

\* the durable store can reject the upsert of the rate counter
InitStoreFault == InitWith(1..2, 0)

NextStoreFault ==
  \/ NextNoFault
  \/ \E w \in Workers : IncrementRateThrows(w) \/ WorkerCatch(w)

SpecStoreFault == InitStoreFault /\ [][NextStoreFault]_vars

\* scheduleEmails from its first line, over every senders table
SenderRows == [owner : {"me", "other"}, email : {"a@x", "b@x"}, isDefault : BOOLEAN, isActive : BOOLEAN]

InitResolve ==
  /\ tick = 0
  /\ req \in [n : {1}, delay : {0}, senderId : 0..MaxSenders, use : {0}]
  /\ coord = "resolve"
  /\ emails = [m \in Msgs |-> NoRow]
  /\ batch = [exists |-> FALSE, total |-> 0, sent |-> 0, failed |-> 0]
  /\ redis = [global |-> 0, sender |-> 0]
  /\ jobs = [id \in JobIds |-> NoJob]
  /\ limiter = [count |-> 0, ttl |-> 0]
  /\ workers = [w \in Workers |-> Idle]
  /\ crashesLeft = 0
  /\ okSends = [m \in Msgs |-> 0]
  /\ incCalls = [m \in Msgs |-> 0]
  /\ call = NoCall
  /\ senders \in [SenderIds -> SenderRows \cup {NoSender, Deleted}]
  /\ \A s, t \in SenderIds :
       s # t /\ senders[s] \in SenderRows /\ senders[t] \in SenderRows /\ senders[s].owner = senders[t].owner
         => senders[s].email # senders[t].email
  /\ sreq = [c \in Clients |-> NoRequest]
  /\ proc = Running
  /\ smtp = NoSmtp

NextResolve == ResolveDefault \/ ResolveAny \/ ValidateSender \/ Schedule

SpecResolve == InitResolve /\ [][NextResolve]_vars

\* The sender registry of one user, with NumClients requests in flight.
SenderStep(c) ==
  \/ SenderRequest(c)
  \/ CreateFind(c) \/ CreateUnset(c) \/ CreateWrite(c)
  \/ UpdateFind(c) \/ UpdateUnset(c) \/ UpdateWrite(c)
  \/ DeleteFind(c) \/ DeleteCount(c) \/ DeleteRow(c) \/ DeleteFirst(c) \/ DeletePromote(c)

NextSenders == \E c \in Clients : SenderStep(c)

SpecSenders == InitWith({1}, 0) /\ [][NextSenders]_vars

Init == InitWith({1}, MaxCrashes)

Next ==
  \/ Schedule \/ EnqueueThrows \/ EnqueueFailureHandler
  \/ Tick
  \/ \E m \in Msgs : CancelEmail(m)
  \/ \E w \in Workers :
       \/ WorkerOk(w) \/ SendFails(w) \/ RescheduleThrows(w)
       \/ WorkerCatch(w) \/ JobRejects(w) \/ Crash(w)

Spec == Init /\ [][Next]_vars

\* ---- properties ---------------------------------------------------------
Status(m) == emails[m].status

SentNow == {m \in Msgs : Exists(m) /\ Status(m) = "SENT" /\ emails[m].sentAt = "cur"}

Pending(m) == \E a \in Attempts : jobs[<<m, a>>].st \in {"delayed", "active"}

\* C1: every message that is SENT had exactly one Transport send that
\* returned ok and exactly one incrementRateLimit call, whatever deliveries
\* (first, redelivered after a lease expiry, rescheduled) its jobs had.
C1_ExactlyOneOkSend ==
  \A m \in Msgs :
    (Exists(m) /\ Status(m) = "SENT") => (okSends[m] = 1 /\ incCalls[m] = 1)

\* C2: with concurrent workers and a transport that always succeeds, the
\* number of messages SENT inside one calendar hour never exceeds the global
\* hourly limit.
C2_AtMostLimitPerHour == Cardinality(SentNow) <= GlobalLimit

\* C3: every status change of an existing message is one of the enumerated
\* transitions of the message state machine.
EnumeratedTransitions ==
  { <<"SCHEDULED", "PROCESSING">>, <<"PROCESSING", "RATE_LIMITED">>,
    <<"RATE_LIMITED", "SCHEDULED">>, <<"PROCESSING", "SENT">>,
    <<"PROCESSING", "SCHEDULED">>, <<"PROCESSING", "FAILED">> }

C3_OnlyEnumeratedTransitions ==
  [][\A m \in Msgs :
       (Exists(m) /\ emails'[m] # NoRow /\ emails'[m].status # Status(m))
         => <<Status(m), emails'[m].status>> \in EnumeratedTransitions]_vars

\* C4: SENT and FAILED are terminal: while the row exists, no step changes
\* the status of a message that is SENT or FAILED.
C4_TerminalStatuses ==
  [][\A m \in Msgs :
       (Exists(m) /\ Status(m) \in {"SENT", "FAILED"} /\ emails'[m] # NoRow)
         => emails'[m].status = Status(m)]_vars

\* C5: a message that the rate limiter denied (RATE_LIMITED) is requeued and,
\* with a succeeding transport, a running clock and fairly scheduled workers,
\* is eventually SENT.
C5_RateLimitedEventuallySent ==
  \A m \in Msgs :
    (Exists(m) /\ Status(m) = "RATE_LIMITED") ~> (Exists(m) /\ Status(m) = "SENT")

\* C5 witness: a message is SENT by the job of its second attempt, the one
\* that a rate-limit denial enqueued
C5_Witness ==
  \E m \in Msgs :
    /\ Exists(m) /\ Status(m) = "SENT" /\ emails[m].jobId = 2
    /\ jobs[<<m, 1>>].st = "completed"

\* the attempt bound of the model is never what stops a reschedule
AttemptBoundNotReached ==
  \A w \in Workers : workers[w].pc = "resched" => NextAttempt(workers[w].a) \in Attempts

\* C7: after a worker died in the middle of a job, the redelivered job
\* completes the message exactly once: at most one send returned ok for any
\* message, and sentEmails counts no message that is not SENT.
C7_CrashCompletesOnce ==
  crashesLeft < MaxCrashes =>
    /\ \A m \in Msgs : okSends[m] <= 1
    /\ batch.sent <= Cardinality({m \in Msgs : Exists(m) /\ Status(m) = "SENT"})

\* C8: a job that fires for a message deleted before the job fired never
\* reaches the Transport send (nor anything after it).
C8_NoSendAfterCancel ==
  \A w \in Workers :
    workers[w].gone => workers[w].pc \notin {"send", "incr", "markSent", "batchInc"}

\* C8 witness: a job fired for a deleted message and ran into the catch block
C8_Witness ==
  \E w \in Workers : workers[w].gone /\ workers[w].pc = "threw"

\* C9: a job that fires for a message whose row is gone changes no message,
\* batch counter or rate counter, and ends completed (not failed, not retried).
C9_MissingRowIsNoOp ==
  [][\A w \in Workers :
       (workers[w].gone /\ workers'[w] # workers[w])
         => /\ emails' = emails /\ batch' = batch /\ redis' = redis
            /\ (workers'[w].pc = "idle" => jobs'[JobOf(w)].st = "completed")]_vars

\* C10: after a transport failure below maxRetries the message is SCHEDULED
\* again and the failure went back to the queue: a job of the message is
\* still waiting or running, so that it can be delivered again.
C10_FailureReturnedToQueue ==
  \A m \in Msgs :
    (Exists(m) /\ Status(m) = "SCHEDULED" /\ emails[m].retryCount > 0
       /\ emails[m].retryCount < MaxRetries /\ \A w \in Workers : workers[w].m # m)
      => Pending(m)

\* C11: with a transport that fails every attempt, a message whose send
\* failed ends FAILED with the transport error, and its batch counts one
\* failed message.
C11_ExhaustedRetriesEndFailed ==
  \A m \in Msgs :
    (Exists(m) /\ emails[m].retryCount > 0)
      ~> (Exists(m) /\ Status(m) = "FAILED" /\ emails[m].err = "transport"
            /\ batch.failed >= 1 /\ ~Pending(m))

\* C12: once scheduleEmails has returned an error, no message of the batch is
\* SCHEDULED without a queue job that can still fire for it.
C12_NoOrphanAfterError ==
  coord = "error" =>
    \A m \in Msgs : (Exists(m) /\ Status(m) = "SCHEDULED") => Pending(m)

\* C13: whenever a queue job of a message exists, the message row and the
\* batch row exist already (nobody cancelling).
C13_RowsBeforeJobs ==
  \A id \in JobIds : jobs[id].st # "none" => (Exists(id[1]) /\ batch.exists)

\* C13 witness: a job was delivered to a worker and its message row is there
C13_Witness ==
  \E id \in JobIds : jobs[id].st = "active" /\ Exists(id[1]) /\ batch.exists

\* C18: every message that is SENT has a sentAt and a provider message id.
C18_SentHasIdAndTime ==
  \A m \in Msgs :
    (Exists(m) /\ Status(m) = "SENT") => (emails[m].sentAt # "null" /\ emails[m].msgId)

\* C19: every message that is FAILED has an error message and
\* retryCount >= maxRetries.
C19_FailedHasErrorAndRetries ==
  \A m \in Msgs :
    (Exists(m) /\ Status(m) = "FAILED")
      => (emails[m].err # "none" /\ emails[m].retryCount >= MaxRetries)

\* C20: the counters of a batch never decrease and
\* sentEmails + failedEmails <= totalEmails.
C20_BatchCounters ==
  /\ [](batch.exists => batch.sent + batch.failed <= batch.total)
  /\ [][batch.exists => (batch'.sent >= batch.sent /\ batch'.failed >= batch.failed)]_vars

\* C14: enqueuing (messageId, attempt) pairs gives one job per distinct pair:
\* distinct pairs get distinct ids, and enqueuing a pair again adds nothing.
C14_IdempotentEnqueue ==
  (call.fn = "enqueue" /\ call.step = 3) =>
    /\ Len(call.ids) = (IF call.p = call.q THEN 1 ELSE 2)
    /\ Cardinality({i \in 1..Len(call.ids) :
                      call.ids[i] = generateJobIdText(call.p[1], call.p[2])}) = 1

\* C14 witness: two different pairs were enqueued and the first one again,
\* and the queue holds two jobs
C14_Witness ==
  call.fn = "enqueue" /\ call.step = 3 /\ call.p # call.q /\ Len(call.ids) = 2

\* C15: calculateScheduledTimes returns exactly count instants, in
\* non-decreasing order.
C15_PlannerMonotone ==
  (call.fn = "plan" /\ call.done) =>
    /\ Len(call.out) = call.count
    /\ \A i \in 1..(Len(call.out) - 1) : call.out[i] <= call.out[i + 1]

\* C15 witness: a plan of MaxCount instants that is not constant
C15_Witness ==
  /\ call.fn = "plan" /\ call.done /\ call.count = MaxCount
  /\ Len(call.out) = MaxCount /\ call.out[1] < call.out[MaxCount]

InstantsInHour(out, upto, h) == {i \in 1..upto : HourStart(out[i]) = h}

\* C16: no clock hour holds more than cap of the planned instants.
C16_PlannerCap ==
  (call.fn = "plan" /\ call.done) =>
    \A i \in 1..Len(call.out) :
      Cardinality(InstantsInHour(call.out, Len(call.out), HourStart(call.out[i]))) <= call.cap

\* C16 witness: more instants than the cap, and an hour filled to the cap
C16_Witness ==
  /\ call.fn = "plan" /\ call.done /\ call.count > call.cap
  /\ \E i \in 1..Len(call.out) :
       Cardinality(InstantsInHour(call.out, Len(call.out), HourStart(call.out[i]))) = call.cap

\* C17: consecutive instants differ by the spacing, or the hour that the
\* spaced instant falls in is full and the next instant is the start of the
\* hour after the previous instant's hour.
C17_PlannerSpacing ==
  (call.fn = "plan" /\ call.done) =>
    \A i \in 1..(Len(call.out) - 1) :
      \/ call.out[i + 1] = call.out[i] + call.spacing
      \/ /\ Cardinality(InstantsInHour(call.out, i, HourStart(call.out[i] + call.spacing)))
              >= call.cap
         /\ call.out[i + 1] = HourStart(call.out[i]) + PlanHour

\* C17 witness: a plan with a jump to the next hour in the middle of an hour
C17_Witness ==
  /\ call.fn = "plan" /\ call.done
  /\ \E i \in 1..(Len(call.out) - 1) :
       /\ call.out[i + 1] # call.out[i] + call.spacing
       /\ call.out[i + 1] = HourStart(call.out[i]) + PlanHour

\* C21: checkRateLimit returns remaining = max(0, min(globalLimit -
\* globalCount, senderLimit - senderCount)), with the global term alone when
\* there is no sender; allowed = (remaining > 0); nextAvailableSlot is now
\* when remaining > 0 and resetTime otherwise.
C21_CheckRateLimitResult ==
  (call.fn = "check" /\ call.done) =>
    LET spare == IF call.hasSender
                   THEN Min(GlobalLimit - call.globalCount, SenderLimit - call.senderCount)
                   ELSE GlobalLimit - call.globalCount
    IN /\ call.out.remaining = Max(0, spare)
       /\ call.out.allowed = (call.out.remaining > 0)
       /\ call.out.nextAvailableSlot =
            (IF call.out.remaining > 0 THEN 0 ELSE call.out.resetTime)
       /\ call.out.resetTime > 0

\* C21 witness: a check with a sender whose counts are above both limits
C21_Witness ==
  /\ call.fn = "check" /\ call.done /\ call.hasSender
  /\ call.globalCount > GlobalLimit /\ call.senderCount > SenderLimit
  /\ ~call.out.allowed /\ call.out.remaining = 0

\* C22: incrementRateLimit is called for a message only by an execution of
\* processEmailJob in which the Transport has returned ok for that message,
\* never before the send, after a failed send or on a denial.
C22_IncrementOnlyAfterOkSend ==
  [][\A m \in Msgs :
       incCalls'[m] # incCalls[m]
         => \E w \in Workers :
              workers[w].m = m /\ workers[w].sent /\ workers[w].pc = "incr"]_vars

\* C22 witness: incrementRateLimit was called for a message that was sent
C22_Witness ==
  \E m \in Msgs : incCalls[m] >= 1 /\ okSends[m] >= 1

Defaults == {s \in Mine : senders[s].isDefault}

\* C23: at most one sender of the user is the default, under any interleaving
\* of concurrent createSender, updateSender and deleteSender requests.
C23_AtMostOneDefault ==
  Cardinality(Defaults) <= 1

\* C24: a user who has a sender never ends with none, under any interleaving
\* of concurrent deleteSender requests.
C24_NeverZeroSenders ==
  [][Mine # {} => Mine' # {}]_vars

\* C25: a message in PROCESSING cannot be cancelled: no step of cancelEmail
\* removes a row whose status is PROCESSING.
C25_ProcessingNotCancelled ==
  [][\A m \in Msgs : CancelEmail(m) => Status(m) # "PROCESSING"]_vars

NothingCreated ==
  /\ ~batch.exists
  /\ \A m \in Msgs : ~Exists(m)
  /\ \A id \in JobIds : jobs[id] = NoJob

\* C26: with a senderId given, scheduleEmails fails unless that sender exists,
\* belongs to the user and is active; with none given it uses the user's
\* default active sender, else any active sender, else it fails; on a failure
\* no batch, no message and no queue job is created.
C26_SenderResolution ==
  /\ coord \in {"resolve", "resolveAny"} => NothingCreated
  /\ coord = "rejected" =>
       /\ NothingCreated
       /\ IF req.senderId # 0 THEN req.senderId \notin ActiveMine ELSE ActiveMine = {}
  /\ coord \notin {"resolve", "resolveAny", "rejected"} =>
       /\ req.use \in ActiveMine
       /\ req.senderId # 0 => req.use = req.senderId
       /\ req.senderId = 0 /\ DefaultMine # {} => req.use \in DefaultMine

\* C26 witness: a request naming an active sender of another user was rejected
C26_Witness ==
  /\ coord = "rejected" /\ req.senderId # 0
  /\ senders[req.senderId] \in SenderRows
  /\ senders[req.senderId].isActive

\* C27: on shutdown the worker is closed first, then the transports and the
\* queue connections, then the store: the store is never disconnected before
\* the pooled transports and the queue connections have been closed.
C27_ShutdownOrder ==
  /\ proc.redis = "closed" => proc.worker = "closed"
  /\ proc.store = "closed" => proc.redis = "closed" /\ ~TransportsOpen

\* C28: a job with attempt number a that the rate limiter denies sets its
\* message to RATE_LIMITED, adds exactly one new job, with attempt number
\* a + 1 and delayed until the next slot, and completes without failing; the
\* message's retryCount and errorMessage and the batch counters stay as they are.
C28_DenialReschedules ==
  [][\A w \in Workers :
       LET m == workers[w].m
           a == workers[w].a
           next == generateJobId(m, a + 1)
       IN /\ workers[w].pc = "markRL" /\ workers'[w].pc # "markRL" =>
               /\ workers'[w].pc = "nextSlot"
               /\ emails' = [emails EXCEPT ![m].status = "RATE_LIMITED"]
               /\ batch' = batch /\ jobs' = jobs
          /\ workers[w].pc = "resched" /\ workers'[w].pc # "resched" =>
               /\ workers'[w].pc = "done"
               /\ jobs[next] = NoJob
               /\ jobs'[next].st = "delayed" /\ jobs'[next].delay = DelayOf(workers[w].tmp)
               /\ \A id \in JobIds \ {next} : jobs'[id] = jobs[id]
               /\ emails' = emails /\ batch' = batch
          /\ workers[w].pc = "done" /\ ~workers[w].sent /\ workers'[w].pc # "done" =>
               /\ jobs' = [jobs EXCEPT ![generateJobId(m, a)].st = "completed"]
               /\ emails' = emails /\ batch' = batch]_vars

\* C28 witness: a denied job has rescheduled its message and is about to return
C28_Witness ==
  \E w \in Workers :
    /\ workers[w].pc = "done" /\ ~workers[w].sent
    /\ Status(workers[w].m) = "RATE_LIMITED"
    /\ jobs[generateJobId(workers[w].m, workers[w].a + 1)].st = "delayed"
    /\ jobs[generateJobId(workers[w].m, workers[w].a + 1)].delay > 0

\* a worker slot that is inside processEmailJob: it has taken a job and the
\* function has neither returned nor thrown
Executing(w) == workers[w].pc \notin {"idle", "done", "threw"}

\* C29: at any instant at most one worker is executing processEmailJob for a
\* given message, although a message can have jobs of several attempt numbers.
C29_OneWorkerPerMessage ==
  \A v, w \in Workers :
    v # w /\ Executing(v) /\ Executing(w) => workers[v].m # workers[w].m

\* C30: once the transport has returned ok for a message, that execution sets
\* the message to SENT, never to SCHEDULED or FAILED, and never increments
\* retryCount, even if a later step of the execution fails.
C30_OkSendEndsSent ==
  [][\A w \in Workers :
       LET m == workers[w].m
       IN workers[w].sent /\ workers'[w] # workers[w] /\ Exists(m) /\ emails'[m] # NoRow =>
            /\ emails'[m].status \notin {"SCHEDULED", "FAILED"}
            /\ emails'[m].retryCount = emails[m].retryCount
            /\ workers'[w].pc = "idle" => Status(m) = "SENT"]_vars

\* the messages of the batch that are still in flight
InFlight == {m \in Msgs : Exists(m) /\ Status(m) \in {"SCHEDULED", "PROCESSING", "RATE_LIMITED"}}

\* C31: when scheduleEmails has ended and no job is being executed,
\* scheduledEmails (written once, with totalEmails) - sentEmails - failedEmails
\* is the number of the batch's messages in flight, also after a cancel and
\* after the enqueue-failure handler.
C31_InFlightCount ==
  (batch.exists /\ coord \in {"done", "error"} /\ \A w \in Workers : workers[w].pc = "idle") =>
    batch.total - batch.sent - batch.failed = Cardinality(InFlight)

\* C32: with no Redis errors and no crashes, whenever no job is in flight the
\* global counter of the current hour is the number of messages SENT in it.
C32_CounterIsSentCount ==
  (\A w \in Workers : workers[w].pc = "idle") => redis.global = Cardinality(SentNow)

\* C33: when checkRateLimit denies, resetTime and nextAvailableSlot are the
\* start of the hour that follows the hour of the counter key that was read,
\* so a check at nextAvailableSlot with no sends in between is allowed.
C33_ResetFollowsCounterWindow ==
  (call.fn = "reset" /\ call.step >= 1 /\ ~call.out.allowed) =>
    /\ call.out.resetTime = (HourKey(call.t) + 1) * TicksPerHour
    /\ call.out.nextAvailableSlot = call.out.resetTime
    /\ call.step = 2 => call.again.allowed

\* C34: with spacing 0 the first cap instants are the start, the next cap
\* instants are the start of the following clock hour, and so on, one group of
\* at most cap instants per consecutive clock hour.
C34_ZeroSpacingGroups ==
  (call.fn = "plan" /\ call.done /\ call.spacing = 0) =>
    /\ Len(call.out) = call.count
    /\ \A i \in 1..Len(call.out) :
         LET group == (i - 1) \div call.cap
         IN call.out[i] = IF group = 0 THEN call.start
                          ELSE HourStart(call.start) + group * PlanHour

\* C34 witness: spacing 0, a start inside an hour and three groups
C34_Witness ==
  /\ call.fn = "plan" /\ call.done /\ call.spacing = 0
  /\ call.start # HourStart(call.start)
  /\ call.count > 2 * call.cap

\* C35: after scheduleEmails succeeds for n recipients the queue holds exactly
\* n jobs, one per message, each with attempt number 1, the message's
\* batchIndex as priority and the delay max(0, scheduledAt - now), and every
\* message's jobId is the id of its own job.
C35_OneLinkedJobPerMessage ==
  (call.fn = "link" /\ call.step = 2) =>
    /\ Len(call.queue) = Len(call.rows)
    /\ \A i \in 1..Len(call.rows) :
         /\ Cardinality({k \in 1..Len(call.queue) : call.queue[k].jobId[1] = call.rows[i].id}) = 1
         /\ \E k \in 1..Len(call.queue) :
              /\ call.queue[k].jobId = <<call.rows[i].id, 1>>
              /\ call.queue[k].attempt = 1
              /\ call.queue[k].priority = call.rows[i].batchIndex
              /\ call.queue[k].delay >= 0
              /\ call.queue[k].delay = Max(0, call.times[i] - call.now)
              /\ call.rows[i].jobId = call.queue[k].jobId

\* C35 witness: three messages whose ids are not in recipient order, one of
\* them planned before the enqueue and one after
C35_Witness ==
  /\ call.fn = "link" /\ call.step = 2 /\ Len(call.rows) = 3
  /\ call.rows[1].id > call.rows[2].id
  /\ \E i, j \in 1..3 : call.times[i] < call.now /\ call.times[j] > call.now

\* verified transporters that the cache does not hold and nothing has closed
Orphans == {t \in TransporterIds : smtp.made[t] = "open" /\ smtp.cache # t}

\* C36: the cache holds at most one live transporter per key and concurrent
\* sendEmail calls leave no second, unclosed transporter; a transporter whose
\* verification failed is never cached; after closeTransporters the cache is
\* empty and every transporter that was verified has been closed.
C36_OneTransporterPerKey ==
  /\ [](Orphans = {})
  /\ [](smtp.cache # 0 => smtp.made[smtp.cache] = "open")
  /\ [][closeTransporters =>
         (smtp'.cache = 0 /\ \A t \in TransporterIds : smtp'.made[t] # "open")]_vars

\* the messages of user V in a table
RowsOfV(rows) == [m \in Msgs |-> IF rows[m] # NoRow /\ rows[m].owner = "V" THEN rows[m] ELSE NoRow]

\* C37: getEmailById and cancelEmail of user U act on messages of U only: a
\* request naming a message of another user is answered with an error and
\* changes nothing, so the messages of user V are what they are in the run
\* without the requests of U.
C37_OwnershipIsolation ==
  /\ [](call.fn = "own" => RowsOfV(call.rows) = RowsOfV(call.shadow))
  /\ [][(call.fn = "own" /\ call.asks["U"].pc = "find"
          /\ ~(call.rows[call.asks["U"].id] # NoRow /\ call.rows[call.asks["U"].id].owner = "U")
          /\ call'.asks["U"] # call.asks["U"])
         => (call'.resp["U"] = "404" /\ call'.rows = call.rows)]_vars

\* C37 witness: user U was refused a message that user V owns and still has
C37_Witness ==
  /\ call.fn = "own" /\ call.resp["U"] = "404"
  /\ \E m \in Msgs : call.rows[m] # NoRow /\ call.rows[m].owner = "V"
  /\ \E m \in Msgs : call.shadow[m] # NoRow /\ call.rows[m] = NoRow

\* checkRateLimitFromDB(senderId): the counts are the messages with status
\* SENT and sentAt in the current hour (every message has the one sender)
checkRateLimitFromDB ==
  checkRateLimit(Cardinality(SentNow), Cardinality(SentNow), TRUE)

\* C38: with no deletions, whenever no job is in flight the fallback check on
\* the stored messages gives the allowed and remaining values of the check on
\* the Redis counters.
C38_FallbackEquivalence ==
  (\A w \in Workers : workers[w].pc = "idle") =>
    LET fast == checkRateLimit(redis.global, redis.sender, TRUE)
    IN /\ fast.allowed = checkRateLimitFromDB.allowed
       /\ fast.remaining = checkRateLimitFromDB.remaining

\* C39: retryCount never decreases, grows by one at a time, never exceeds
\* maxRetries, and is not incremented for a message that is FAILED or SENT.
C39_RetryCountBounded ==
  [][\A m \in Msgs :
       (Exists(m) /\ emails'[m] # NoRow) =>
         /\ emails'[m].retryCount >= emails[m].retryCount
         /\ emails'[m].retryCount <= emails[m].retryCount + 1
         /\ emails'[m].retryCount <= MaxRetries
         /\ emails'[m].retryCount # emails[m].retryCount => Status(m) \notin {"FAILED", "SENT"}]_vars

====
